---- MODULE Spec2Model ----
(***************************************************************************)
(* BRCCS (Bayes-Rehermann Conversational Classification System): the       *)
(* BayesRehermann object of src/__init__.py as a state machine.            *)
(*                                                                         *)
(* Strings are sequences of one-character strings, so that str.split(' ')  *)
(* and ' '.join are computed and not assumed.  Python list objects live in *)
(* `heap` and are named by reference, because create_snapshot stores the   *)
(* buffer object itself in self.snapshots.  The NLTK classifier is a black *)
(* box that can only answer with a label of its training set.              *)
(***************************************************************************)
EXTENDS Integers, Sequences, FiniteSets, TLC

VARIABLES data, heap, snapshots, classifiers, history, database, db, connTxn,
          tasks, main, ret, loop, emitted, script, feat, calls

vars == <<data, heap, snapshots, classifiers, history, database, db, connTxn,
          tasks, main, ret, loop, emitted, script, feat, calls>>

sysVars == <<data, heap, snapshots, classifiers, history, database, db,
             connTxn, tasks, main, ret>>

loopVars == <<loop, emitted, script>>

----------------------------------------------------------------------------
(* Bounds of the model.                                                    *)

MaxData == 2

MaxObjects == 2

MaxHistory == 4

MaxLimit == 6

MaxRec == 2

(* Program constant: the number of terminator labels padded after the      *)
(* words of the next sentence.                                             *)
Padding == 50

----------------------------------------------------------------------------
(* Values.                                                                 *)

Names == {"s", "t"}

Speakers == {"bob", "eve"}

None == "None"

DbFile == "brccs.db"

SentA == <<"a">>

SentAB == <<"a", " ", "b">>

(* Conversations a caller hands in: one too short to train on, one that    *)
(* yields training examples.                                               *)
Conversations == {<<SentA>>, <<SentA, SentAB>>}

(* The label False that ends a response, and the initial value of `last`.  *)
Terminator == <<"False">>

NoWord == <<"None">>

(* The words the loop specification lets the classifier emit; the empty    *)
(* word is what split(' ') yields between two adjacent spaces.             *)
Words == {<<"a">>, <<"b">>, <<>>}

Min(a, b) == IF a < b THEN a ELSE b

Max(a, b) == IF a > b THEN a ELSE b

----------------------------------------------------------------------------
(* Python string and list primitives.                                      *)

RECURSIVE SplitFrom(_, _, _, _)
SplitFrom(s, i, cur, acc) ==
    IF i > Len(s) THEN Append(acc, cur)
    ELSE IF s[i] = " " THEN SplitFrom(s, i + 1, <<>>, Append(acc, cur))
    ELSE SplitFrom(s, i + 1, Append(cur, s[i]), acc)

(* s.split(' ') *)
Split(s) == SplitFrom(s, 1, <<>>, <<>>)

RECURSIVE Join(_)
(* ' '.join(ws) *)
Join(ws) ==
    IF Len(ws) = 0 THEN <<>>
    ELSE IF Len(ws) = 1 THEN ws[1]
    ELSE ws[1] \o <<" ">> \o Join(Tail(ws))

(* xs[:k] for k >= 0 *)
Take(xs, k) == SubSeq(xs, 1, Min(k, Len(xs)))

(* xs[:k] for any integer k, as Python slices: a negative k counts from    *)
(* the end.                                                                *)
SliceTo(xs, k) == IF k >= 0 THEN Take(xs, k) ELSE Take(xs, Max(Len(xs) + k, 0))

RECURSIVE Repeat(_, _)
(* [x] * n *)
Repeat(x, n) == IF n <= 0 THEN <<>> ELSE <<x>> \o Repeat(x, n - 1)

RECURSIVE Flatten(_)
Flatten(xss) == IF Len(xss) = 0 THEN <<>> ELSE Head(xss) \o Flatten(Tail(xss))

----------------------------------------------------------------------------
(* Objects.                                                                *)

ListRef(r) == [kind |-> "list", ref |-> r]

(* The value of the expression {} : an empty dict.  It is never mutated,   *)
(* so its identity does not matter.                                        *)
EmptyDict == [kind |-> "dict", ref |-> 0]

(* What iterating over the object yields, given heap h.                    *)
ItemsIn(h, v) == IF v.kind = "list" THEN h[v.ref] ELSE <<>>

Items(v) == ItemsIn(heap, v)

----------------------------------------------------------------------------
(* Training pipeline (create_snapshot, lines 168-174).                     *)

(* One training example.  The feature vector is a pure function of the     *)
(* arguments of sentence_data, so the example records those arguments.     *)
Example(sentence, hist, wi, word) ==
    [sent |-> sentence, history |-> hist, response_index |-> wi, label |-> word]

(* Examples whose history runs one sentence too far, context[:i + 1].      *)
ExamplesAtLongHistory(context, i) ==
    LET nextWords == Split(context[i + 2]) \o Repeat(Terminator, Padding)
    IN [wi1 \in 1..Len(nextWords) |->
           Example(context[i + 1], Take(context, i + 1), wi1 - 1,
                   nextWords[wi1])]

(* The examples of sentence i (0-based) of a context: one per position of  *)
(* the next sentence's words followed by the padding.                      *)
ExamplesAt(context, i) ==
    LET nextWords == Split(context[i + 2]) \o Repeat(Terminator, Padding)
    IN [wi1 \in 1..Len(nextWords) |->
           Example(context[i + 1], Take(context, i), wi1 - 1, nextWords[wi1])]

(* for i, sentence in enumerate(context[:-1]) *)
ContextExamples(context) ==
    IF Len(context) < 2 THEN <<>>
    ELSE Flatten([i1 \in 1..(Len(context) - 1) |-> ExamplesAt(context, i1 - 1)])

(* train_data for the conversations convs *)
TrainData(convs) ==
    IF Len(convs) = 0 THEN <<>>
    ELSE Flatten([c \in 1..Len(convs) |-> ContextExamples(convs[c])])

(* nltk.NaiveBayesClassifier.train: the classifier answers only with       *)
(* labels it was trained on.                                               *)
Train(train_data) ==
    [labels |-> {train_data[k].label : k \in 1..Len(train_data)}]

----------------------------------------------------------------------------
(* Persistence collaborator: the committed content of the sqlite file.     *)

TableIds == 0..(Cardinality(Names) - 1)

NoTable == [exists |-> FALSE, rows |-> <<>>]

(* The file after __init__ has created SnapIndex and History.              *)
EmptyDb == [SnapIndex |-> <<>>, tables |-> [t \in TableIds |-> NoTable],
            History |-> <<>>]

(* The rows train() inserts into Snapshot_<n>: (i, sentence) for every     *)
(* sentence of every context, in order (lines 197-199).                    *)
SnapshotRows(convs) ==
    IF Len(convs) = 0 THEN <<>>
    ELSE Flatten([c \in 1..Len(convs) |->
             [j \in 1..Len(convs[c]) |->
                 [context |-> c - 1, sentence |-> convs[c][j]]]])

(* Lines 192-201, on a second connection.  The INSERT cannot take the      *)
(* write lock while self.conn holds an uncommitted transaction, and CREATE *)
(* TABLE fails when Snapshot_<n> exists; either way nothing is committed.  *)
Persist(d, txn, snaps, h, key) ==
    LET n == Cardinality(DOMAIN snaps) - 1
    IN IF Len(txn) > 0 \/ d.tables[n].exists
       THEN [ok |-> FALSE, db |-> d]
       ELSE [ok |-> TRUE,
             db |-> [d EXCEPT
                 !.SnapIndex = Append(@, [name |-> key, sindex |-> n]),
                 !.tables[n] = [exists |-> TRUE,
                                rows |-> SnapshotRows(ItemsIn(h, snaps[key]))]]]

----------------------------------------------------------------------------
(* The generation loop of respond (lines 241-271).                         *)

(* Lines 241-246: the locals before the first iteration.  `given` keeps    *)
(* the recursion_limit argument, which line 271 overwrites; `stop` names   *)
(* the break that ended the loop.                                          *)
LoopStart(limit, recursion_limit) ==
    [pc |-> "loop", stop |-> "none", limit |-> limit,
     given |-> recursion_limit, recursion_limit |-> recursion_limit,
     response |-> <<>>, i |-> 0, last |-> NoWord, recurse |-> 0]

(* Lines 254-258: the repeat counter after comparing word with last.  The  *)
(* else branch `recurse == 0` is a comparison and assigns nothing.         *)
Recurse(st, word) == IF word = st.last THEN st.recurse + 1 ELSE st.recurse

(* The anti-loop break without its truncation.                             *)
TruncateNothing(response, recurse) == response

(* Lines 260-262: response[:-recurse + 1].                                 *)
Truncate(response, recurse) == SliceTo(response, 1 - recurse)

(* A loop without the hard cap.                                            *)
CapReachedNever(n, limit) == FALSE

(* The cap tested one word too late.                                       *)
CapReachedLate(n, limit) == n > limit

(* Line 267: the hard cap.                                                 *)
CapReached(n, limit) == n >= limit

(* One iteration (lines 249-271) for the classified label word.            *)
LoopIter(st, word) ==
    IF word = Terminator
    THEN [st EXCEPT !.pc = "done", !.stop = "terminator"]
    ELSE LET r == Recurse(st, word)
             appended == Append(st.response, word)
         IN IF r > st.recursion_limit
            THEN [st EXCEPT !.pc = "done", !.stop = "antiloop", !.recurse = r,
                            !.response = Truncate(st.response, r)]
            ELSE IF CapReached(Len(appended), st.limit)
            THEN [st EXCEPT !.pc = "done", !.stop = "cap", !.recurse = r,
                            !.response = appended, !.i = @ + 1]
            ELSE [st EXCEPT !.recurse = r, !.response = appended, !.i = @ + 1,
                            !.last = word,
                            !.recursion_limit =
                                Min(@, st.limit - Len(appended))]

RECURSIVE RunLoop(_, _, _)
(* The whole while loop, the k-th classify call answering out[k].          *)
RunLoop(st, out, k) ==
    IF st.pc = "done" THEN st ELSE RunLoop(LoopIter(st, out[k]), out, k + 1)

(* The classify answers a run of the loop can consume: the hard cap stops  *)
(* it after at most max(limit, 1) of them.                                 *)
Outputs(labels, limit) == [1..Max(limit, 1) -> labels]

----------------------------------------------------------------------------
(* The object, its caller and its training threads.                        *)

(* The call of train() for a snapshot name, in a thread of its own or in   *)
(* the caller's: where it is in train(), the variables its closure         *)
(* captured, and the operation that started it.                            *)
NoTask == [pc |-> "none", clear_data |-> FALSE, commit |-> FALSE,
           train_data |-> <<>>, via |-> "none"]

(* A train() that has returned ("done") or raised keeps no locals.         *)
Ended(how) == [NoTask EXCEPT !.pc = how]

Finished(t) == t.pc \in {"none", "done", "raised"}

(* What the object shows of a list or dict.                                *)
ObsIn(h, v) == [kind |-> v.kind, items |-> ItemsIn(h, v)]

Buffer == ObsIn(heap, data)

Stored == [k \in DOMAIN snapshots |-> ObsIn(heap, snapshots[k])]

(* The calling thread: idle between calls, or inside add_snapshot between  *)
(* create_snapshot's return and line 108 (`before` remembers the buffer    *)
(* the call found).                                                        *)
Idle == [pc |-> "idle", old |-> EmptyDict, res |-> FALSE, key |-> None,
         before |-> ObsIn(<<>>, EmptyDict)]

(* The outcome of the caller's last call: the exception it raised or the   *)
(* value it returned, and for respond the arguments that decide what is    *)
(* written to the history.                                                 *)
Outcome(op, err, res, response) ==
    [op |-> op, err |-> err, res |-> res, response |-> response,
     snapshot |-> None, sentence |-> <<>>, speaker |-> None,
     use_history |-> FALSE]

RespondOutcome(err, res, response, snapshot, sentence, speaker, use_history) ==
    [op |-> "respond", err |-> err, res |-> res, response |-> response,
     snapshot |-> snapshot, sentence |-> sentence, speaker |-> speaker,
     use_history |-> use_history]

(* sentence_data when it is not running: no tagged tokens, no features.    *)
NoFeat == [pc |-> "none", tags |-> <<>>, i |-> 0, data |-> << >>]

(* The threads of a program that calls the instance from two threads.      *)
Callers == {1, 2}

(* A caller thread outside any call, and the locals a call keeps: its      *)
(* arguments, its position, and what it returned or raised.                *)
NoCall ==
    [op |-> "none", pc |-> "idle", key |-> None, clear_data |-> FALSE,
     train_data |-> <<>>, sentence |-> <<>>, speaker |-> None,
     response |-> <<>>, res |-> FALSE, err |-> "none"]

NoCalls == [c \in Callers |-> NoCall]

HistoryOf(hist, speaker) == IF speaker \in DOMAIN hist THEN hist[speaker] ELSE <<>>

RECURSIVE SumLen(_, _)
SumLen(hist, S) ==
    IF S = {} THEN 0
    ELSE LET x == CHOOSE y \in S : TRUE
         IN Len(hist[x]) + SumLen(hist, S \ {x})

TotalHistory == SumLen(history, DOMAIN history)

(* __init__ (lines 49-94) on no database or on a new, empty database file. *)
Init ==
    /\ data = ListRef(1)
    /\ heap = << <<>> >>
    /\ snapshots = << >>
    /\ classifiers = << >>
    /\ history = << >>
    /\ database \in {None, DbFile}
    /\ db = EmptyDb
    /\ connTxn = <<>>
    /\ tasks = [k \in Names |-> NoTask]
    /\ main = Idle
    /\ ret = Outcome("init", "none", TRUE, <<>>)
    /\ loop = LoopStart(0, 0)
    /\ emitted = <<>>
    /\ script = <<>>
    /\ feat = NoFeat
    /\ calls = NoCalls

(* add_conversation (lines 214-222): list.append on the buffer object; a   *)
(* dict has no append.                                                     *)
add_conversation(conversation) ==
    /\ main.pc = "idle"
    /\ Len(Items(data)) < MaxData
    /\ IF data.kind = "list"
       THEN /\ heap' = [heap EXCEPT ![data.ref] = Append(@, conversation)]
            /\ ret' = Outcome("add_conversation", "none", TRUE, <<>>)
       ELSE /\ heap' = heap
            /\ ret' = Outcome("add_conversation", "AttributeError", FALSE, <<>>)
    /\ UNCHANGED <<data, snapshots, classifiers, history, database, db,
                   connTxn, tasks, main, loop, emitted, script, feat, calls>>

(* The default of create_snapshot's commit parameter, which every call of  *)
(* the model leaves alone.                                                 *)
DefaultCommit == TRUE

(* The existence check left out.                                           *)
ExistsNever(snaps, key) == FALSE

(* Line 154: key in self.snapshots.                                        *)
Exists(snaps, key) == key \in DOMAIN snaps

(* train() run to its end or to its first exception (lines 176-204), in    *)
(* the caller's thread: the effect on classifiers, the file and self.data. *)
TrainInline(key, train_data, snaps, h, d, clear_data, commit) ==
    IF Len(train_data) = 0
    THEN [err |-> "ValueError", classifiers |-> classifiers, db |-> db,
          data |-> d]
    ELSE LET cls == (key :> Train(train_data)) @@ classifiers
             p == IF database # None /\ commit
                  THEN Persist(db, connTxn, snaps, h, key)
                  ELSE [ok |-> TRUE, db |-> db]
         IN IF ~p.ok
            THEN [err |-> "OperationalError", classifiers |-> cls, db |-> db,
                  data |-> d]
            ELSE [err |-> "none", classifiers |-> cls, db |-> p.db,
                  data |-> IF clear_data THEN EmptyDict ELSE d]

(* The body of create_snapshot (lines 148-212) when self.data is d and the *)
(* heap is h: the result, the exception if any, and the new state.         *)
CreateEffect(h, d, key, clear_data, commit, use_threads, via) ==
    IF Exists(snapshots, key)
    THEN [res |-> FALSE, err |-> "none", snapshots |-> snapshots,
          classifiers |-> classifiers, db |-> db, data |-> d,
          task |-> tasks[key]]
    ELSE LET snaps == (key :> d) @@ snapshots
             train_data == TrainData(ItemsIn(h, d))
         IN IF use_threads
            THEN [res |-> TRUE, err |-> "none", snapshots |-> snaps,
                  classifiers |-> classifiers, db |-> db, data |-> d,
                  task |-> [pc |-> "train", clear_data |-> clear_data,
                            commit |-> commit, train_data |-> train_data,
                            via |-> via]]
            ELSE LET t == TrainInline(key, train_data, snaps, h, d,
                                      clear_data, commit)
                 IN [res |-> (t.err = "none"), err |-> t.err,
                     snapshots |-> snaps, classifiers |-> t.classifiers,
                     db |-> t.db, data |-> t.data,
                     task |-> Ended(IF t.err = "none" THEN "done"
                                    ELSE "raised")]

create_snapshot(key, clear_data, commit, use_threads) ==
    /\ main.pc = "idle"
    /\ LET e == CreateEffect(heap, data, key, clear_data, commit, use_threads,
                             "create_snapshot")
       IN /\ snapshots' = e.snapshots
          /\ classifiers' = e.classifiers
          /\ db' = e.db
          /\ data' = e.data
          /\ tasks' = [tasks EXCEPT ![key] = e.task]
          /\ ret' = Outcome("create_snapshot", e.err, e.res, <<>>)
    /\ UNCHANGED <<heap, history, database, connTxn, main, loop, emitted, script, feat, calls>>

(* add_snapshot up to the return of create_snapshot (lines 104-106); an    *)
(* exception of create_snapshot leaves add_snapshot before line 108.       *)
add_snapshot_call(key, conversations, clear_data, commit, use_threads) ==
    /\ main.pc = "idle"
    /\ Len(heap) < MaxObjects
    /\ LET h == Append(heap, conversations)
           d == ListRef(Len(h))
           e == CreateEffect(h, d, key, clear_data, commit, use_threads,
                             "add_snapshot")
       IN /\ heap' = h
          /\ snapshots' = e.snapshots
          /\ classifiers' = e.classifiers
          /\ db' = e.db
          /\ data' = e.data
          /\ tasks' = [tasks EXCEPT ![key] = e.task]
          /\ IF e.err = "none"
             THEN /\ main' = [pc |-> "add_snapshot", old |-> data,
                              res |-> e.res, key |-> key, before |-> Buffer]
                  /\ ret' = ret
             ELSE /\ main' = Idle
                  /\ ret' = Outcome("add_snapshot", e.err, FALSE, <<>>)
    /\ UNCHANGED <<history, database, connTxn, loop, emitted, script, feat, calls>>

(* Lines 108-109.                                                          *)
add_snapshot_return ==
    /\ main.pc = "add_snapshot"
    /\ data' = main.old
    /\ ret' = Outcome("add_snapshot", "none", main.res, <<>>)
    /\ main' = Idle
    /\ UNCHANGED <<heap, snapshots, classifiers, history, database, db,
                   connTxn, tasks, loop, emitted, script, feat, calls>>

(* train() after line 201: at line 204 if clear_data, else returned.       *)
AfterCommit(t) ==
    IF t.clear_data THEN [t EXCEPT !.pc = "clear", !.train_data = <<>>]
    ELSE Ended("done")

(* train() after line 188: at the commit of lines 192-201 if line 191      *)
(* lets it in, else on as after the commit.  The thread is followed from   *)
(* one statement that touches the instance or the file to the next.        *)
AfterClassify(t) ==
    IF database # None /\ t.commit
    THEN [t EXCEPT !.pc = "commit", !.train_data = <<>>]
    ELSE AfterCommit(t)

(* A training thread, lines 177-188.                                       *)
train_classify(key) ==
    /\ tasks[key].pc = "train"
    /\ IF Len(tasks[key].train_data) > 0
       THEN /\ classifiers' = (key :> Train(tasks[key].train_data)) @@ classifiers
            /\ tasks' = [tasks EXCEPT ![key] = AfterClassify(tasks[key])]
       ELSE /\ classifiers' = classifiers
            /\ tasks' = [tasks EXCEPT ![key] = Ended("raised")]
    /\ UNCHANGED <<data, heap, snapshots, history, database, db, connTxn,
                   main, ret, loop, emitted, script, feat, calls>>

(* A training thread, lines 190-201.                                       *)
train_commit(key) ==
    /\ tasks[key].pc = "commit"
    /\ LET p == IF database # None /\ tasks[key].commit
                THEN Persist(db, connTxn, snapshots, heap, key)
                ELSE [ok |-> TRUE, db |-> db]
       IN /\ db' = p.db
          /\ tasks' = IF p.ok THEN [tasks EXCEPT ![key] = AfterCommit(tasks[key])]
                      ELSE [tasks EXCEPT ![key] = Ended("raised")]
    /\ UNCHANGED <<data, heap, snapshots, classifiers, history, database,
                   connTxn, main, ret, loop, emitted, script, feat, calls>>

(* A training thread, lines 203-204.                                       *)
train_clear(key) ==
    /\ tasks[key].pc = "clear"
    /\ data' = EmptyDict
    /\ tasks' = [tasks EXCEPT ![key] = Ended("done")]
    /\ UNCHANGED <<heap, snapshots, classifiers, history, database, db,
                   connTxn, main, ret, loop, emitted, script, feat, calls>>

(* The default of respond's recursion_limit parameter.                     *)
DefaultRecursionLimit == 5

(* A lookup that falls back to a classifier that only ends the sentence,   *)
(* as a dict.get with a default would.                                     *)
ClassifierOrDefault(cls, snapshot) ==
    IF snapshot \in DOMAIN cls
    THEN [found |-> TRUE, labels |-> cls[snapshot].labels]
    ELSE [found |-> TRUE, labels |-> {Terminator}]

(* Line 240, self.classifiers[snapshot]: the classifier, or KeyError.      *)
ClassifierOf(cls, snapshot) ==
    IF snapshot \in DOMAIN cls
    THEN [found |-> TRUE, labels |-> cls[snapshot].labels]
    ELSE [found |-> FALSE, labels |-> {}]

(* A history whose log is started afresh at every call, as lines 274-275   *)
(* would do without their test.                                            *)
HistoryRestarted(hist, speaker, use_history, sentence, response) ==
    IF use_history /\ speaker # None
    THEN (speaker :> <<sentence, response>>) @@ hist
    ELSE hist

(* Lines 273-278: the history after the call.                              *)
HistoryAfter(hist, speaker, use_history, sentence, response) ==
    IF use_history /\ speaker # None
    THEN (speaker :> (HistoryOf(hist, speaker) \o <<sentence, response>>))
            @@ hist
    ELSE hist

(* Lines 280-284: the cursor of self.conn, which is None without a         *)
(* database, and the two INSERTs, which no commit follows.                 *)
CommitHistory(txn, dbname, speaker, sentence, response) ==
    IF dbname = None
    THEN [err |-> "AttributeError", txn |-> txn]
    ELSE [err |-> "none",
          txn |-> txn \o <<[speaker |-> speaker, sentence |-> sentence],
                           [speaker |-> speaker, sentence |-> response]>>]

(* respond (lines 224-286).  The lookup of line 240 raises KeyError before *)
(* anything is written; the history is appended before the INSERTs.        *)
respond(snapshot, sentence, speaker, use_history, commit_history, limit, recursion_limit) ==
    /\ main.pc = "idle"
    /\ LET c == ClassifierOf(classifiers, snapshot)
       IN IF ~c.found
          THEN /\ ret' = RespondOutcome("KeyError", FALSE, <<>>, snapshot,
                                        sentence, speaker, use_history)
               /\ UNCHANGED <<history, connTxn>>
          ELSE \E out \in Outputs(c.labels, limit) :
               LET st == RunLoop(LoopStart(limit, recursion_limit), out, 1)
                   response == Join(st.response)
                   track == use_history /\ speaker # None
                   w == IF track /\ commit_history
                        THEN CommitHistory(connTxn, database, speaker,
                                           sentence, response)
                        ELSE [err |-> "none", txn |-> connTxn]
               IN /\ track => TotalHistory + 2 <= MaxHistory
                  /\ history' = HistoryAfter(history, speaker, use_history,
                                             sentence, response)
                  /\ connTxn' = w.txn
                  /\ ret' = RespondOutcome(w.err, w.err = "none",
                               IF w.err = "none" THEN response ELSE <<>>,
                               snapshot, sentence, speaker, use_history)
    /\ UNCHANGED <<data, heap, snapshots, classifiers, database, db, tasks,
                   main, loop, emitted, script, feat, calls>>

(* The snapshot store and its training threads, without a database.        *)
Next ==
    \/ \E c \in Conversations : add_conversation(c)
    \/ \E key \in Names, clear_data, use_threads \in BOOLEAN :
          create_snapshot(key, clear_data, DefaultCommit, use_threads)
    \/ \E key \in Names, c \in Conversations,
          clear_data, use_threads \in BOOLEAN :
          add_snapshot_call(key, <<c>>, clear_data, DefaultCommit, use_threads)
    \/ add_snapshot_return
    \/ \E key \in Names : train_classify(key)
    \/ \E key \in Names : train_clear(key)

(* Lines 42-53 and 93-94: an instance constructed without a database.     *)
InitStore == Init /\ database = None

Spec == InitStore /\ [][Next]_vars

----------------------------------------------------------------------------
(* Responding, with and without a database: snapshots are made from the    *)
(* buffer, and respond is called on them in every state of their training. *)

TalkConversations == {<<SentA, SentA>>}

CallSentences == {SentA}

CallSpeakers == {None, "bob", "eve"}

CallLimits == {0, 1}

(* The one name under which this slice of the runs makes a snapshot; the   *)
(* other name of Names stays unknown to the object.                        *)
TalkNames == {"s"}

NextTalk ==
    \/ \E c \in TalkConversations : add_conversation(c)
    \/ \E key \in TalkNames, clear_data, use_threads \in BOOLEAN :
          create_snapshot(key, clear_data, DefaultCommit, use_threads)
    \/ \E key \in TalkNames : train_classify(key)
    \/ \E key \in TalkNames : train_commit(key)
    \/ \E key \in TalkNames : train_clear(key)
    \/ \E snapshot \in Names, sentence \in CallSentences,
          speaker \in CallSpeakers, use_history, commit_history \in BOOLEAN,
          limit \in CallLimits :
          respond(snapshot, sentence, speaker, use_history, commit_history,
                  limit, DefaultRecursionLimit)

SpecTalk == Init /\ [][NextTalk]_vars

----------------------------------------------------------------------------
(* The generation loop on its own, one classify call per step, for every   *)
(* limit, recursion limit and sequence of classifier answers.              *)

LoopLimits == (0 - 1)..MaxLimit

LoopRecursionLimits == 0..MaxRec

InitLoop ==
    /\ data = ListRef(1)
    /\ heap = << <<>> >>
    /\ snapshots = << >>
    /\ classifiers = << >>
    /\ history = << >>
    /\ database = None
    /\ db = EmptyDb
    /\ connTxn = <<>>
    /\ tasks = [k \in Names |-> NoTask]
    /\ main = Idle
    /\ ret = Outcome("init", "none", TRUE, <<>>)
    /\ \E limit \in LoopLimits, recursion_limit \in LoopRecursionLimits :
          loop = LoopStart(limit, recursion_limit)
    /\ emitted = <<>>
    /\ script = <<>>
    /\ feat = NoFeat
    /\ calls = NoCalls

(* Lines 249-271: one iteration, the classifier answering word.            *)
classify(word) ==
    /\ loop.pc = "loop"
    /\ loop' = LoopIter(loop, word)
    /\ emitted' = Append(emitted, word)
    /\ UNCHANGED <<sysVars, script, feat, calls>>

(* Line 286: the joined response is returned.                              *)
loop_return ==
    /\ loop.pc = "done"
    /\ loop' = [loop EXCEPT !.pc = "returned"]
    /\ ret' = Outcome("respond", "none", TRUE, Join(loop.response))
    /\ UNCHANGED <<data, heap, snapshots, classifiers, history, database, db,
                   connTxn, tasks, main, emitted, script, feat, calls>>

NextLoop ==
    \/ \E word \in Words \cup {Terminator} : classify(word)
    \/ loop_return

SpecLoop == InitLoop /\ [][NextLoop]_vars

----------------------------------------------------------------------------
(* The generation loop against a mocked classifier that answers by         *)
(* position: a prefix of words, then one word at recursion_limit + 2       *)
(* consecutive positions, then the terminator.                             *)

MaxPrefix == 2

MockWords == {<<"a">>, <<"b">>}

Prefixes == UNION {[1..n -> MockWords] : n \in 0..MaxPrefix}

MockScript(prefix, word, recursion_limit) ==
    prefix \o Repeat(word, recursion_limit + 2) \o <<Terminator>>

InitMock ==
    /\ data = ListRef(1)
    /\ heap = << <<>> >>
    /\ snapshots = << >>
    /\ classifiers = << >>
    /\ history = << >>
    /\ database = None
    /\ db = EmptyDb
    /\ connTxn = <<>>
    /\ tasks = [k \in Names |-> NoTask]
    /\ main = Idle
    /\ ret = Outcome("init", "none", TRUE, <<>>)
    /\ emitted = <<>>
    /\ \E limit \in 1..MaxLimit, recursion_limit \in LoopRecursionLimits,
          prefix \in Prefixes, word \in MockWords :
          /\ loop = LoopStart(limit, recursion_limit)
          /\ script = MockScript(prefix, word, recursion_limit)
    /\ feat = NoFeat
    /\ calls = NoCalls

(* The classifier's answer at position i is script[i + 1].                 *)
classify_mock ==
    /\ loop.pc = "loop"
    /\ classify(script[loop.i + 1])

NextMock ==
    \/ classify_mock
    \/ loop_return

SpecMock == InitMock /\ [][NextMock]_vars

----------------------------------------------------------------------------
(* Properties of the generation loop.                                      *)

(* seq holds word at n consecutive positions.                              *)
HasRun(seq, word, n) ==
    \E k \in 0..(Len(seq) - n) : \A j \in 1..n : seq[k + j] = word

(* C3 as claimed: for every integer limit, the returned string split on    *)
(* single spaces has at most limit elements.                               *)
C3_BoundedForAnyLimit ==
    loop.pc = "returned" => Len(Split(ret.response)) <= loop.limit

(* C3 as amended: for every limit of at least 1, every recursion limit and *)
(* every sequence of classifier answers, the returned string split on      *)
(* single spaces has at most limit elements.                               *)
C3_BoundedResponse ==
    (loop.pc = "returned" /\ loop.limit >= 1)
        => Len(Split(ret.response)) <= loop.limit

(* C3 witness: a response that the hard cap ended, with exactly limit      *)
(* elements, limit being 2 or more.                                        *)
C3_Witness ==
    /\ loop.pc = "returned"
    /\ loop.stop = "cap"
    /\ loop.limit >= 2
    /\ Len(Split(ret.response)) = loop.limit

(* The mocked classifier's prefix length and repeated word.                *)
MockPrefixLen == Len(script) - loop.given - 3

MockWord == script[MockPrefixLen + 1]

----------------------------------------------------------------------------
(* Properties of the snapshot store.                                       *)

(* What a call that performs no mutation leaves alone, the buffer apart.   *)
StoreUntouched ==
    /\ snapshots' = snapshots
    /\ Stored' = Stored
    /\ classifiers' = classifiers
    /\ history' = history
    /\ tasks' = tasks
    /\ db' = db

(* C1: a create_snapshot or add_snapshot under a name that already has a   *)
(* snapshot returns False and leaves every snapshot, every classifier, the *)
(* history and, once it has returned, the pending buffer as they were.     *)
(* (A create_snapshot step is one that reports itself in ret', and an      *)
(* add_snapshot_call step one that allocates the passed list.)             *)
C1_GrowOnlyOnDuplicate ==
    [][/\ ret'.op = "create_snapshot" =>
            \A key \in DOMAIN snapshots, clear_data, use_threads \in BOOLEAN :
                create_snapshot(key, clear_data, DefaultCommit, use_threads)
                => (ret'.err = "none" /\ ~ret'.res /\ Buffer' = Buffer
                      /\ StoreUntouched)
       /\ Len(heap') = Len(heap) + 1 =>
            \A key \in DOMAIN snapshots, c \in Conversations,
               clear_data, use_threads \in BOOLEAN :
                add_snapshot_call(key, <<c>>, clear_data, DefaultCommit,
                                  use_threads)
                => (main'.pc = "add_snapshot" /\ ~main'.res /\ StoreUntouched)
       /\ (add_snapshot_return /\ ~main.res)
            => (ret'.err = "none" /\ ~ret'.res /\ Buffer' = main.before
                  /\ StoreUntouched)]_vars

(* C1 witness: add_snapshot has returned False for a name whose snapshot   *)
(* has a classifier, the buffer holding a conversation.                    *)
C1_Witness ==
    /\ ret.op = "add_snapshot"
    /\ ret.err = "none"
    /\ ~ret.res
    /\ main.pc = "idle"
    /\ DOMAIN classifiers # {}
    /\ Buffer.kind = "list"
    /\ Len(Buffer.items) >= 1

(* C2 as claimed: once a snapshot is created and its classifier trained,   *)
(* the conversations stored under its name never change, whatever is       *)
(* called later.                                                           *)
C2_SnapshotImmutable ==
    [][\A k \in DOMAIN classifiers :
          k \in DOMAIN snapshots' /\ Stored'[k] = Stored[k]]_vars

(* C6 as claimed: create_snapshot under a new name on a buffer that yields *)
(* no training example fails with the ValueError of train(), reports no    *)
(* success and registers no classifier, with or without a thread.          *)
C6_NoTrainingDataSurfaced ==
    [][\A key \in Names, clear_data, use_threads \in BOOLEAN :
          (key \notin DOMAIN snapshots
             /\ Len(TrainData(Items(data))) = 0
             /\ create_snapshot(key, clear_data, DefaultCommit, use_threads))
          => (ret'.err = "ValueError" /\ ~ret'.res
                /\ key \notin DOMAIN classifiers')]_vars

(* A step of the training thread of key.                                   *)
train_step(key) ==
    train_classify(key) \/ train_commit(key) \/ train_clear(key)

(* C10 as claimed, for the add_snapshot calls that return: the call       *)
(* leaves the pending buffer as it found it, when it returns and when the  *)
(* training thread it started runs on after the return.                    *)
C10_AddSnapshotBypassesBuffer ==
    [][/\ add_snapshot_return => Buffer' = main.before
       /\ \A key \in Names :
            (tasks[key].via = "add_snapshot" /\ main.pc = "idle"
               /\ train_step(key))
            => Buffer' = Buffer]_vars

----------------------------------------------------------------------------
(* A fresh instance on the database file (__init__, lines 71-91).          *)

(* Lines 78-81: one row (cind, sentence) added to contexts.                *)
AddRow(contexts, row) ==
    LET padded == contexts \o Repeat(<<>>, row.context + 1 - Len(contexts))
    IN [padded EXCEPT ![row.context + 1] = Append(@, row.sentence)]

RECURSIVE LoadContexts(_, _)
(* Lines 75-81: the contexts rebuilt from the rows of a Snapshot_<n>.      *)
LoadContexts(rows, contexts) ==
    IF Len(rows) = 0 THEN contexts
    ELSE LoadContexts(Tail(rows), AddRow(contexts, Head(rows)))

RECURSIVE LoadSnapshots(_, _, _)
(* Lines 73-83: add_snapshot for every row of SnapIndex; a name that is    *)
(* already there is left alone.                                            *)
LoadSnapshots(d, index, snaps) ==
    IF Len(index) = 0 THEN snaps
    ELSE LET row == Head(index)
             contexts == LoadContexts(d.tables[row.sindex].rows, <<>>)
         IN LoadSnapshots(d, Tail(index),
               IF row.name \in DOMAIN snaps THEN snaps
               ELSE (row.name :> contexts) @@ snaps)

RECURSIVE LoadHistory(_, _)
(* Lines 85-91: the History rows replayed in storage order.                *)
LoadHistory(rows, hist) ==
    IF Len(rows) = 0 THEN hist
    ELSE LoadHistory(Tail(rows),
            (Head(rows).speaker :>
                Append(HistoryOf(hist, Head(rows).speaker), Head(rows).sentence))
            @@ hist)

(* The conversations by name and the history of an instance constructed on *)
(* the committed content d of the file.                                    *)
Reloaded(d) ==
    [snapshots |-> LoadSnapshots(d, d.SnapIndex, << >>),
     history |-> LoadHistory(d.History, << >>)]

----------------------------------------------------------------------------
(* Properties of respond and of persistence.                               *)

(* The step is the respond call that ret' reports, on snapshot, with the   *)
(* given commit_history and limit.                                         *)
RespondStep(snapshot, commit_history, limit) ==
    /\ ret'.op = "respond"
    /\ ret'.snapshot = snapshot
    /\ respond(snapshot, ret'.sentence, ret'.speaker, ret'.use_history,
               commit_history, limit, DefaultRecursionLimit)

(* C5: respond on a name without a registered classifier fails with        *)
(* KeyError and leaves the history, the snapshots, the classifiers, the    *)
(* pending buffer and the uncommitted INSERTs as they were.                *)
C5_NotFoundOnUnregistered ==
    [][\A snapshot \in Names, commit_history \in BOOLEAN, limit \in CallLimits :
          (snapshot \notin DOMAIN classifiers
             /\ RespondStep(snapshot, commit_history, limit))
          => /\ ret'.err = "KeyError"
             /\ history' = history
             /\ connTxn' = connTxn
             /\ Buffer' = Buffer
             /\ StoreUntouched]_vars

(* C5 witness: respond has raised KeyError on a snapshot that is created   *)
(* and whose training thread has not yet registered a classifier, for a    *)
(* speaker whose history would have been written.                          *)
C5_Witness ==
    /\ ret.op = "respond"
    /\ ret.err = "KeyError"
    /\ ret.speaker # None
    /\ ret.use_history
    /\ ret.snapshot \in DOMAIN snapshots
    /\ tasks[ret.snapshot].pc = "train"
    /\ Len(tasks[ret.snapshot].train_data) > 0

IsPrefix(xs, ys) == Len(xs) <= Len(ys) /\ SubSeq(ys, 1, Len(xs)) = xs

(* Every log has an even length and an input sentence at every odd place.  *)
HistoryShape ==
    \A sp \in DOMAIN history :
        /\ Len(history[sp]) % 2 = 0
        /\ \A k \in 1..Len(history[sp]) :
              k % 2 = 1 => history[sp][k] \in CallSentences

(* The history after a respond call that got its classifier, told from     *)
(* the arguments and the returned response in ret'.                        *)
HistoryEffect ==
    IF ret'.use_history /\ ret'.speaker # None
    THEN LET sp == ret'.speaker
             H == HistoryOf(history, sp)
             H1 == HistoryOf(history', sp)
         IN /\ DOMAIN history' = DOMAIN history \cup {sp}
            /\ Len(H1) = Len(H) + 2
            /\ IsPrefix(H, H1)
            /\ H1[Len(H) + 1] = ret'.sentence
            /\ ret'.err = "none" => H1[Len(H) + 2] = ret'.response
            /\ \A other \in DOMAIN history \ {sp} :
                  history'[other] = history[other]
    ELSE history' = history

(* C7: a respond call with a speaker and use_history appends the sentence  *)
(* and then the response to that speaker's log and changes no other log;   *)
(* any other respond call leaves the history alone; so every log has even  *)
(* length, alternates input and response, and only grows at its end.       *)
C7_HistoryEffect ==
    [][/\ \A snapshot \in Names, commit_history \in BOOLEAN,
             limit \in CallLimits :
            (snapshot \in DOMAIN classifiers
               /\ RespondStep(snapshot, commit_history, limit))
            => HistoryEffect
       /\ HistoryShape'
       /\ \A sp \in DOMAIN history :
             sp \in DOMAIN history' /\ IsPrefix(history[sp], history'[sp])]_vars

(* C7 witness: the second respond call of a speaker has returned a word,   *)
(* and the speaker's log holds the first call and then this one.           *)
C7_Witness ==
    /\ ret.op = "respond"
    /\ ret.err = "none"
    /\ ret.speaker = "bob"
    /\ ret.use_history
    /\ ret.response # <<>>
    /\ "bob" \in DOMAIN history
    /\ Len(history["bob"]) = 4
    /\ SubSeq(history["bob"], 3, 4) = <<ret.sentence, ret.response>>

(* C8 as claimed: respond on a name with a registered classifier returns a *)
(* string, whatever the speaker, use_history and commit_history, with or   *)
(* without a database.                                                     *)
C8_OnlyNotFoundFails ==
    [][\A snapshot \in Names, commit_history \in BOOLEAN, limit \in CallLimits :
          (snapshot \in DOMAIN classifiers
             /\ RespondStep(snapshot, commit_history, limit))
          => (ret'.err = "none" /\ ret'.res)]_vars

(* Nothing is running: the caller is between calls and every train() has   *)
(* ended.                                                                  *)
Quiescent == main.pc = "idle" /\ \A k \in Names : Finished(tasks[k])

(* C9 as claimed, for the snapshot names and the history: with a database, *)
(* once every snapshot creation has succeeded (train() returned) and every *)
(* history entry was written by a respond with commit_history, a fresh     *)
(* instance on the file has the same snapshot names and the same history   *)
(* logs.                                                                   *)
C9_PersistenceRoundTrip ==
    (/\ database # None
     /\ Quiescent
     /\ \A k \in DOMAIN snapshots : tasks[k].pc = "done"
     /\ Len(connTxn) = TotalHistory)
    => LET fresh == Reloaded(db)
       IN /\ DOMAIN fresh.snapshots = DOMAIN snapshots
          /\ DOMAIN fresh.history = DOMAIN history
          /\ \A sp \in DOMAIN history : fresh.history[sp] = history[sp]

----------------------------------------------------------------------------
(* Properties of the repeat counter and of the loop's end.                 *)

(* C12 as claimed, for the words a and b: an iteration whose classified    *)
(* word differs from the last emitted word leaves recurse at 0 after the   *)
(* comparison of lines 254-258.                                            *)
C12_CounterReset ==
    [][\A word \in MockWords :
          (classify(word) /\ loop.last \in MockWords /\ word # loop.last)
          => loop'.recurse = 0]_vars

(* C13 as claimed, for the words a and b: when the loop stops because      *)
(* recurse exceeds the recursion limit, the response is the list built so  *)
(* far without its last recurse - 1 words, and every removed word is the   *)
(* repeated word.                                                          *)
C13_TruncatesRepeats ==
    [][\A word \in MockWords :
          (classify(word) /\ loop'.stop = "antiloop")
          => LET built == loop.response
                 kept == Len(built) - (loop'.recurse - 1)
             IN /\ loop'.response = Take(built, kept)
                /\ \A k \in (kept + 1)..Len(built) : built[k] = word]_vars

(* C14 as claimed, for recursion limits of 1 and more and the words a and  *)
(* b: no word occurs more than recursion_limit times in a row in the       *)
(* returned response.                                                      *)
C14_MaxRunLength ==
    (loop.pc = "returned" /\ loop.given >= 1)
        => \A word \in MockWords :
              ~HasRun(loop.response, word, loop.given + 1)

(* C15: whatever the classifier answers, at most max(limit, 1) of its      *)
(* answers are appended, and the loop has stopped when that many are: no   *)
(* iteration starts with max(limit, 1) words appended.                     *)
C15_LoopTerminates ==
    /\ loop.i <= Max(loop.limit, 1)
    /\ Len(emitted) <= Max(loop.limit, 1) + 1
    /\ loop.pc = "loop" => loop.i < Max(loop.limit, 1)

(* C15 witness: a classifier that never repeats a word and never ends the  *)
(* sentence was stopped by the hard cap after limit words, limit being 3   *)
(* or more.                                                                *)
C15_Witness ==
    /\ loop.pc = "returned"
    /\ loop.stop = "cap"
    /\ loop.limit >= 3
    /\ loop.i = loop.limit
    /\ Len(emitted) = loop.limit
    /\ \A k \in 1..(Len(emitted) - 1) : emitted[k] # emitted[k + 1]

----------------------------------------------------------------------------
(* The training set of a threaded create_snapshot, for buffers of up to    *)
(* MaxData conversations of zero to three sentences.                       *)

TrainConversations ==
    {<<>>, <<SentA>>, <<SentA, SentAB>>, <<SentA, <<>>>>,
     <<SentAB, SentA, SentAB>>}

TrainBuffers == UNION {[1..n -> TrainConversations] : n \in 0..MaxData}

(* The instance after the add_conversation calls that built the buffer.    *)
InitTrain ==
    /\ data = ListRef(1)
    /\ \E buffer \in TrainBuffers : heap = <<buffer>>
    /\ snapshots = << >>
    /\ classifiers = << >>
    /\ history = << >>
    /\ database = None
    /\ db = EmptyDb
    /\ connTxn = <<>>
    /\ tasks = [k \in Names |-> NoTask]
    /\ main = Idle
    /\ ret = Outcome("init", "none", TRUE, <<>>)
    /\ loop = LoopStart(0, 0)
    /\ emitted = <<>>
    /\ script = <<>>
    /\ feat = NoFeat
    /\ calls = NoCalls

NextTrain ==
    \/ \E key \in Names, clear_data \in BOOLEAN :
          create_snapshot(key, clear_data, DefaultCommit, TRUE)
    \/ \E key \in Names : train_classify(key)
    \/ \E key \in Names : train_clear(key)

SpecTrain == InitTrain /\ [][NextTrain]_vars

(* The places (conversation c, sentence i, word position wi) of the        *)
(* training set C18 describes: i in 0..L-2, wi below the word count of     *)
(* sentence i + 1 plus the padding.                                        *)
SynthesisPlaces(convs) ==
    UNION {UNION {{<<c, i, wi>> :
                      wi \in 0..(Len(Split(convs[c][i + 2])) + Padding - 1)} :
                  i \in 0..(Len(convs[c]) - 2)} :
           c \in 1..Len(convs)}

(* The example C18 describes for a place.                                  *)
SynthesisExample(convs, place) ==
    LET context == convs[place[1]]
        i == place[2]
        wi == place[3]
        nextWords == Split(context[i + 2])
    IN [sent |-> context[i + 1],
        history |-> SubSeq(context, 1, i),
        response_index |-> wi,
        label |-> IF wi < Len(nextWords) THEN nextWords[wi + 1]
                  ELSE Terminator]

(* train_data is the training set of convs: as many examples as places,    *)
(* every example that of a place, and every place's example there.         *)
IsSynthesis(train_data, convs) ==
    LET places == SynthesisPlaces(convs)
        expected == {SynthesisExample(convs, place) : place \in places}
    IN /\ Len(train_data) = Cardinality(places)
       /\ \A k \in 1..Len(train_data) : train_data[k] \in expected
       /\ \A e \in expected : \E k \in 1..Len(train_data) : train_data[k] = e

(* C18: the training set a create_snapshot builds from the buffer has, for *)
(* every conversation and every i in 0..L-2, one example per word of       *)
(* sentence i + 1 and 50 more, built from sentence i with the history      *)
(* conversation[:i] and labelled with the word or, past the words, the     *)
(* terminator; shorter conversations and last sentences give none.         *)
C18_TrainingSetSynthesis ==
    [][\A key \in Names, clear_data \in BOOLEAN :
          (key \notin DOMAIN snapshots
             /\ create_snapshot(key, clear_data, DefaultCommit, TRUE))
          => IsSynthesis(tasks'[key].train_data, Items(data))]_vars

(* C18 witness: a training thread holds the training set of a buffer with  *)
(* a three-sentence conversation and a one-sentence conversation: 51       *)
(* examples for the first sentence and 52 for the second.                  *)
C18_Witness ==
    \E key \in DOMAIN snapshots :
        /\ tasks[key].pc = "train"
        /\ Items(snapshots[key]) = <<<<SentAB, SentA, SentAB>>, <<SentA>>>>
        /\ Len(tasks[key].train_data) = 2 * Padding + 3
        /\ tasks[key].train_data[Padding + 2].history = <<SentAB>>

(* C19 as claimed: between calls the pending buffer is a list in every     *)
(* reachable state, and no add_conversation call fails.                    *)
C19_BufferAppendable ==
    /\ main.pc = "idle" => data.kind = "list"
    /\ ret.op = "add_conversation" => ret.err = "none"

----------------------------------------------------------------------------
(* Snapshots of several names committed to a database by their training    *)
(* threads.                                                                *)

(* Lines 42-91 on a new file: an instance with a database.                 *)
InitPersist == Init /\ database = DbFile

NextPersist ==
    \/ \E c \in TalkConversations : add_conversation(c)
    \/ \E key \in Names, clear_data, use_threads \in BOOLEAN :
          create_snapshot(key, clear_data, DefaultCommit, use_threads)
    \/ \E key \in Names : train_classify(key)
    \/ \E key \in Names : train_commit(key)
    \/ \E key \in Names : train_clear(key)

SpecPersist == InitPersist /\ [][NextPersist]_vars

(* The names recorded in SnapIndex.                                        *)
IndexedNames == {db.SnapIndex[k].name : k \in 1..Len(db.SnapIndex)}

(* C20 as claimed: no two rows of SnapIndex share an ordinal, no train()   *)
(* that has registered its classifier fails at its commit, and once every  *)
(* train() has ended every snapshot with a classifier is in SnapIndex.     *)
C20_DistinctOrdinals ==
    /\ \A a, b \in 1..Len(db.SnapIndex) :
          a # b => db.SnapIndex[a].sindex # db.SnapIndex[b].sindex
    /\ \A key \in DOMAIN classifiers : tasks[key].pc # "raised"
    /\ (\A key \in Names : Finished(tasks[key]))
          => IndexedNames = DOMAIN classifiers

----------------------------------------------------------------------------
(* The per-token features of sentence_data (lines 117-139), for a sentence *)
(* of up to MaxTokens tokens and no history.  The tokenizer and the tagger *)
(* are black boxes: the sentence is given as its tagged tokens.            *)

MaxTokens == 3

Tokens == {<<"a">>, <<"a", "b">>}

Tags == {<<"N", "N">>, <<"V", "B", "Z">>}

TaggedSentences ==
    UNION {[1..n -> [word : Tokens, tag : Tags]] : n \in 0..MaxTokens}

(* stemmer.stem(word): a black box, a function of the word.                *)
Stem(word) == [stem_of |-> word]

(* xs[k:] for k >= 0 *)
Drop(xs, k) == SubSeq(xs, k + 1, Len(xs))

(* Lines 131-139: the name and the value of each sub_data call of one      *)
(* iteration, in order.                                                    *)
SubDataCalls(word, tag) ==
    << [name |-> "tag", value |-> tag],
       [name |-> "token", value |-> word],
       [name |-> "pos", value |-> <<word, tag>>],
       [name |-> "token chars", value |-> Len(word)],
       [name |-> "tag stem", value |-> Take(tag, 2)],
       [name |-> "tag branch", value |-> Drop(tag, 2)],
       [name |-> "token stem", value |-> Stem(word)],
       [name |-> "first letter", value |-> <<word[1]>>],
       [name |-> "first letter", value |-> <<word[Len(word)]>>] >>

(* data[key] = value on a dict.                                            *)
SetItem(d, key, value) ==
    [k \in DOMAIN d \cup {key} |-> IF k = key THEN value ELSE d[k]]

(* The key "{name} #{index}"; the backward keys "{name} #-{k}" have the    *)
(* index -k, k being 1 or more.                                            *)
Key(name, index) == <<name, index>>

(* Lines 117-120: the tagged tokens and the empty feature dict.            *)
InitFeatures ==
    /\ data = ListRef(1)
    /\ heap = << <<>> >>
    /\ snapshots = << >>
    /\ classifiers = << >>
    /\ history = << >>
    /\ database = None
    /\ db = EmptyDb
    /\ connTxn = <<>>
    /\ tasks = [k \in Names |-> NoTask]
    /\ main = Idle
    /\ ret = Outcome("init", "none", TRUE, <<>>)
    /\ loop = LoopStart(0, 0)
    /\ emitted = <<>>
    /\ script = <<>>
    /\ calls = NoCalls
    /\ \E tags \in TaggedSentences :
          feat = [pc |-> "tokens", tags |-> tags, i |-> 0, call |-> 1,
                  data |-> << >>]

(* Lines 127-129: the next sub_data call of iteration i, and after the     *)
(* last one the next iteration.                                            *)
sub_data ==
    /\ feat.pc = "tokens"
    /\ feat.i < Len(feat.tags)
    /\ LET token == feat.tags[feat.i + 1]
           call == SubDataCalls(token.word, token.tag)[feat.call]
           forward == SetItem(feat.data, Key(call.name, feat.i), call.value)
           both == SetItem(forward,
                           Key(call.name, 0 - (Len(feat.tags) - feat.i)),
                           call.value)
       IN feat' = IF feat.call < 9
                  THEN [feat EXCEPT !.data = both, !.call = @ + 1]
                  ELSE [feat EXCEPT !.data = both, !.call = 1, !.i = @ + 1]
    /\ UNCHANGED <<sysVars, loopVars, calls>>

(* Line 146, the history being empty: the features are returned.           *)
sentence_data_return ==
    /\ feat.pc = "tokens"
    /\ feat.i = Len(feat.tags)
    /\ feat' = [feat EXCEPT !.pc = "done"]
    /\ UNCHANGED <<sysVars, loopVars, calls>>

NextFeatures == sub_data \/ sentence_data_return

SpecFeatures == InitFeatures /\ [][NextFeatures]_vars

(* C11 as claimed: in the returned features, for every token i and each of *)
(* the nine sub_data calls, the call's value is under the call's name at   *)
(* the forward key #i and at the backward key #-(n - i).                   *)
C11_MirroredFamilies ==
    feat.pc = "done" =>
        \A i \in 0..(Len(feat.tags) - 1), f \in 1..9 :
            LET token == feat.tags[i + 1]
                call == SubDataCalls(token.word, token.tag)[f]
                forward == Key(call.name, i)
                backward == Key(call.name, 0 - (Len(feat.tags) - i))
            IN /\ forward \in DOMAIN feat.data
               /\ backward \in DOMAIN feat.data
               /\ feat.data[forward] = feat.data[backward]
               /\ feat.data[forward] = call.value

----------------------------------------------------------------------------
(* create_snapshot called from two threads, training in the calling thread *)
(* (use_threads=False), statement by statement: the instance has no lock.  *)

(* The instance after add_conversation(["a", "a"]).                        *)
InitRace ==
    /\ data = ListRef(1)
    /\ heap = << <<<<SentA, SentA>>>> >>
    /\ snapshots = << >>
    /\ classifiers = << >>
    /\ history = << >>
    /\ database = None
    /\ db = EmptyDb
    /\ connTxn = <<>>
    /\ tasks = [k \in Names |-> NoTask]
    /\ main = Idle
    /\ ret = Outcome("add_conversation", "none", TRUE, <<>>)
    /\ loop = LoopStart(0, 0)
    /\ emitted = <<>>
    /\ script = <<>>
    /\ feat = NoFeat
    /\ calls = NoCalls

(* The caller has returned or raised.                                      *)
Returned(call, res, err) ==
    [call EXCEPT !.pc = "returned", !.res = res, !.err = err,
                 !.train_data = <<>>]

(* Lines 153-158: the call and its test of the name.                       *)
create_snapshot_check(c, key, clear_data) ==
    /\ calls[c].pc \in {"idle", "returned"}
    /\ LET call == [NoCall EXCEPT !.op = "create_snapshot", !.key = key,
                                  !.clear_data = clear_data]
       IN calls' = [calls EXCEPT ![c] =
                       IF Exists(snapshots, key)
                       THEN Returned(call, FALSE, "none")
                       ELSE [call EXCEPT !.pc = "store"]]
    /\ UNCHANGED <<sysVars, loopVars, feat>>

(* Line 161: self.snapshots[key] = self.data.                              *)
create_snapshot_store(c) ==
    /\ calls[c].pc = "store"
    /\ snapshots' = (calls[c].key :> data) @@ snapshots
    /\ calls' = [calls EXCEPT ![c].pc = "build"]
    /\ UNCHANGED <<data, heap, classifiers, history, database, db, connTxn,
                   tasks, main, ret, loopVars, feat>>

(* Lines 168-174: train_data from self.data as it is now.                  *)
create_snapshot_build(c) ==
    /\ calls[c].pc = "build"
    /\ calls' = [calls EXCEPT ![c].pc = "train",
                              ![c].train_data = TrainData(Items(data))]
    /\ UNCHANGED <<sysVars, loopVars, feat>>

(* Lines 177-188 of train(), called at line 210: the classifier is         *)
(* assigned, or ValueError leaves the call.                                *)
create_snapshot_train(c) ==
    /\ calls[c].pc = "train"
    /\ IF Len(calls[c].train_data) > 0
       THEN /\ classifiers' =
                  (calls[c].key :> Train(calls[c].train_data)) @@ classifiers
            /\ calls' = [calls EXCEPT ![c].pc = "clear",
                                      ![c].train_data = <<>>]
       ELSE /\ classifiers' = classifiers
            /\ calls' = [calls EXCEPT ![c] = Returned(@, FALSE, "ValueError")]
    /\ UNCHANGED <<data, heap, snapshots, history, database, db, connTxn,
                   tasks, main, ret, loopVars, feat>>

(* Lines 203-204 and 212: the buffer is cleared if asked, True returned.   *)
create_snapshot_return(c) ==
    /\ calls[c].pc = "clear"
    /\ data' = IF calls[c].clear_data THEN EmptyDict ELSE data
    /\ calls' = [calls EXCEPT ![c] = Returned(@, TRUE, "none")]
    /\ UNCHANGED <<heap, snapshots, classifiers, history, database, db,
                   connTxn, tasks, main, ret, loopVars, feat>>

NextRace ==
    \/ \E c \in Callers, key \in Names, clear_data \in BOOLEAN :
          create_snapshot_check(c, key, clear_data)
    \/ \E c \in Callers : create_snapshot_store(c)
    \/ \E c \in Callers : create_snapshot_build(c)
    \/ \E c \in Callers : create_snapshot_train(c)
    \/ \E c \in Callers : create_snapshot_return(c)

SpecRace == InitRace /\ [][NextRace]_vars

(* No two callers have returned True for the same name.                    *)
AtMostOneSuccess ==
    \A c1, c2 \in Callers :
        (c1 # c2 /\ calls[c1].pc = "returned" /\ calls[c2].pc = "returned"
           /\ calls[c1].res /\ calls[c2].res)
        => calls[c1].key # calls[c2].key

(* C16 as claimed: under every interleaving of the callers, a name's       *)
(* snapshot is written once, its classifier is assigned once, and at most  *)
(* one call reports success for it.                                        *)
C16_ExactlyOnceCreation ==
    [][/\ \A c \in Callers :
            create_snapshot_store(c) => calls[c].key \notin DOMAIN snapshots
       /\ \A c \in Callers :
            (create_snapshot_train(c) /\ classifiers' # classifiers)
            => calls[c].key \notin DOMAIN classifiers
       /\ AtMostOneSuccess']_vars

----------------------------------------------------------------------------
(* respond called once from each of two threads, with use_history and      *)
(* without commit_history, statement by statement from line 273 on.        *)

ChatSentences == {SentA, SentAB}

(* The instance after add_conversation(["a", "a"]) and                     *)
(* create_snapshot("s", clear_data=False, use_threads=False).              *)
InitChat ==
    /\ data = ListRef(1)
    /\ heap = << <<<<SentA, SentA>>>> >>
    /\ snapshots = ("s" :> ListRef(1))
    /\ classifiers = ("s" :> Train(TrainData(<<<<SentA, SentA>>>>)))
    /\ history = << >>
    /\ database = None
    /\ db = EmptyDb
    /\ connTxn = <<>>
    /\ tasks = [k \in Names |-> IF k = "s" THEN Ended("done") ELSE NoTask]
    /\ main = Idle
    /\ ret = Outcome("create_snapshot", "none", TRUE, <<>>)
    /\ loop = LoopStart(0, 0)
    /\ emitted = <<>>
    /\ script = <<>>
    /\ feat = NoFeat
    /\ calls = NoCalls

(* Lines 234-271: the call, its classifier and the response its loop       *)
(* builds from the classifier's answers.                                   *)
respond_generate(c, snapshot, sentence, speaker, limit) ==
    /\ calls[c].pc = "idle"
    /\ LET call == [NoCall EXCEPT !.op = "respond", !.key = snapshot,
                                  !.sentence = sentence, !.speaker = speaker]
           cl == ClassifierOf(classifiers, snapshot)
       IN IF ~cl.found
          THEN calls' = [calls EXCEPT ![c] = Returned(call, FALSE, "KeyError")]
          ELSE \E out \in Outputs(cl.labels, limit) :
               LET st == RunLoop(LoopStart(limit, DefaultRecursionLimit),
                                 out, 1)
               IN calls' = [calls EXCEPT ![c] =
                               [call EXCEPT !.pc = "check",
                                            !.response = Join(st.response)]]
    /\ UNCHANGED <<sysVars, loopVars, feat>>

(* Line 274: is the speaker in self.history?                               *)
respond_check(c) ==
    /\ calls[c].pc = "check"
    /\ calls' = [calls EXCEPT ![c].pc =
                    IF calls[c].speaker \in DOMAIN history THEN "sentence"
                    ELSE "init"]
    /\ UNCHANGED <<sysVars, loopVars, feat>>

(* Line 275: self.history[speaker] = [].                                   *)
respond_init(c) ==
    /\ calls[c].pc = "init"
    /\ history' = (calls[c].speaker :> <<>>) @@ history
    /\ calls' = [calls EXCEPT ![c].pc = "sentence"]
    /\ UNCHANGED <<data, heap, snapshots, classifiers, database, db, connTxn,
                   tasks, main, ret, loopVars, feat>>

(* Line 277: the sentence is appended.                                     *)
respond_sentence(c) ==
    /\ calls[c].pc = "sentence"
    /\ history' = [history EXCEPT ![calls[c].speaker] =
                      Append(@, calls[c].sentence)]
    /\ calls' = [calls EXCEPT ![c].pc = "response"]
    /\ UNCHANGED <<data, heap, snapshots, classifiers, database, db, connTxn,
                   tasks, main, ret, loopVars, feat>>

(* Lines 278 and 286: the response is appended and returned.               *)
respond_response(c) ==
    /\ calls[c].pc = "response"
    /\ history' = [history EXCEPT ![calls[c].speaker] =
                      Append(@, calls[c].response)]
    /\ calls' = [calls EXCEPT ![c].pc = "returned", ![c].res = TRUE]
    /\ UNCHANGED <<data, heap, snapshots, classifiers, database, db, connTxn,
                   tasks, main, ret, loopVars, feat>>

NextChat ==
    \/ \E c \in Callers, snapshot \in Names, sentence \in ChatSentences,
          speaker \in Speakers, limit \in CallLimits :
          respond_generate(c, snapshot, sentence, speaker, limit)
    \/ \E c \in Callers : respond_check(c)
    \/ \E c \in Callers : respond_init(c)
    \/ \E c \in Callers : respond_sentence(c)
    \/ \E c \in Callers : respond_response(c)

SpecChat == InitChat /\ [][NextChat]_vars

(* The log holds the call's sentence at an odd place and the call's        *)
(* response right after it.                                                *)
Logged(log, call) ==
    \E p \in 1..(Len(log) - 1) :
        /\ p % 2 = 1
        /\ log[p] = call.sentence
        /\ log[p + 1] = call.response

(* C17 as claimed: when two concurrent respond calls of one speaker have   *)
(* returned, the speaker's log holds the four entries, each call's         *)
(* sentence right before that call's response.                             *)
C17_HistorySerialized ==
    \A c1, c2 \in Callers :
        (/\ c1 # c2
         /\ calls[c1].pc = "returned" /\ calls[c1].res
         /\ calls[c2].pc = "returned" /\ calls[c2].res
         /\ calls[c1].speaker = calls[c2].speaker)
        => LET log == HistoryOf(history, calls[c1].speaker)
           IN /\ Len(log) = 4
              /\ Logged(log, calls[c1])
              /\ Logged(log, calls[c2])

====
